---- MODULE Spec2Model ----
(***************************************************************************)
(* Job orchestration of the music assistant backend: the Job Store         *)
(* (JobService), the Audio Registry (AudioService), the create_job         *)
(* endpoint, the Celery push task process_audio_job with its retry and     *)
(* late-acknowledgment policy, the poll worker AudioJobWorker, the         *)
(* stem-separation pipeline (PipelineRunnerService), the upload_audio and  *)
(* get_job endpoints and the path operations of LocalStorage.              *)
(*                                                                         *)
(* Conventions.  An Optional value is None (<<>>) or Some(x) (<<x>>).      *)
(* Progress values are the floats the code writes: 0 for 0.0, 1 for 1.0.   *)
(* A file name is the sequence of its dot-separated parts, so that         *)
(* "my.song.mp3" is <<"my", "song", "mp3">>.  A storage-relative path      *)
(* jobs/{job_id}/stems/{file} is the tuple <<"jobs", job_id, "stems",      *)
(* file>>.  Exceptions are records [kind, msg]: kind "transient" stands    *)
(* for ConnectionError, TimeoutError and IOError (OSError), kind "other"   *)
(* for every other Exception; msg is str(e).                               *)
(***************************************************************************)
EXTENDS Naturals, Sequences, FiniteSets, TLC

(* ------------------------------ bounds -------------------------------- *)

\* process_audio_job.delay calls (task ids) over a run.
MaxTasks == 1

(* ------------------------- program constants -------------------------- *)

\* max_retries of the process_audio_job task.
MaxRetries == 3

\* autoretry_for=(ConnectionError, TimeoutError, IOError)
autoretry_for == {"transient"}

QUEUED == "queued"
RUNNING == "running"
SUCCEEDED == "succeeded"
FAILED == "failed"
\* PROCESSING as a status value of its own.
PROCESSING_OwnValue == "processing"

\* Legacy aliases of JobStatus.
PENDING == QUEUED
PROCESSING == RUNNING
COMPLETED == SUCCEEDED

JobStatusValues == {QUEUED, RUNNING, SUCCEEDED, FAILED}

STEM_SEPARATION == "stem_separation"
MELODY_EXTRACTION == "melody_extraction"
CHORD_ANALYSIS == "chord_analysis"

\* The attributes class JobType defines.
JobTypeAttrs ==
  [STEM_SEPARATION |-> STEM_SEPARATION,
   MELODY_EXTRACTION |-> MELODY_EXTRACTION,
   CHORD_ANALYSIS |-> CHORD_ANALYSIS]

DEFAULT_STEM_FORMAT == "mp3"

(* ----------------------------- universe ------------------------------- *)

None == <<>>
Some(x) == <<x>>

\* Job ids are UUIDs.  The model follows one job row: every operation reads
\* and writes the row and the directory of a single job id.
JobIds == {"j1"}
\* The ids of two jobs that reference the same audio, followed side by side
\* by PairSpec.
PairJobIds == {"j1", "j2"}
TaskIds == 1..MaxTasks

\* One audio id; whether it has an Audio row and a file on disk is chosen
\* by Init.
AudioIds == {"a1"}
\* job.input without an audio_id key, and with a string that is no UUID.
NoAudioId == "missing"
BadAudioId == "not-a-uuid"
InputAudio == AudioIds \cup {NoAudioId, BadAudioId}

\* Sanitized original file names, the second with a dot in its basename.
FileNames == {<<"song", "mp3">>, <<"my", "song", "mp3">>}

\* Types a stored job may carry: JobService.create_job takes any string.
UNKNOWN_TYPE == "bogus"
StoredTypes == {STEM_SEPARATION, MELODY_EXTRACTION, CHORD_ANALYSIS, UNKNOWN_TYPE}

\* The stems the separation engine returns (the engine's dictionary keys).
StemSet == {"vocals", "drums"}

\* The exceptions the engine and the file system raise inside the pipeline,
\* as [kind, msg = str(e)]: a TimeoutError() without a message and a
\* RuntimeError("boom").
Exc(kind, msg) == [kind |-> kind, msg |-> msg]
EngineExcs == {Exc("transient", ""), Exc("other", "boom")}
\* Those raised where process_stem_separation wraps them in a RuntimeError.
WrappedExcs == {Exc("transient", "")}

\* The order in which the engine's dictionary yields the stems.
StemOrder == <<"vocals", "drums">>
\* The stems saved before the save of the n+1st fails.
SavedBefore(n) == {StemOrder[i] : i \in 1..n}

(* ----------------------------- Job Store ------------------------------ *)

\* Job(...) as JobService.create_job builds it; the columns not passed take
\* their defaults: progress 0.0, output and error_message NULL.
NewJob(job_type, input_audio, status) ==
  [type |-> job_type,
   input |-> input_audio,
   params |-> None,
   status |-> status,
   output |-> None,
   progress |-> Some(0),
   error_message |-> None]

\* Python truthiness of an Optional[str]: None and "" are falsy.
Truthy(error_message) == error_message # None /\ error_message[1] # ""

\* update_job_status writing the params column as well.
update_job_status_TouchParams(tbl, job_id, status, error_message, progress, output) ==
  IF job_id \in DOMAIN tbl
  THEN [tbl EXCEPT ![job_id] =
          [@ EXCEPT !.status = status,
                    !.params = Some(status),
                    !.error_message = IF Truthy(error_message) THEN error_message ELSE @,
                    !.progress = IF progress # None THEN progress ELSE @,
                    !.output = IF output # None THEN output ELSE @]]
  ELSE tbl

\* JobService.update_job_status on the table tbl: the row after the commit.
\* A call for an unknown id changes nothing.
update_job_status(tbl, job_id, status, error_message, progress, output) ==
  IF job_id \in DOMAIN tbl
  THEN [tbl EXCEPT ![job_id] =
          [@ EXCEPT !.status = status,
                    !.error_message = IF Truthy(error_message) THEN error_message ELSE @,
                    !.progress = IF progress # None THEN progress ELSE @,
                    !.output = IF output # None THEN output ELSE @]]
  ELSE tbl

\* JobService.get_pending_jobs
get_pending_jobs(tbl) == {j \in DOMAIN tbl : tbl[j].status = QUEUED}

(* --------------------------- Audio Registry --------------------------- *)

\* get_audio_path building a path whether or not the id has a row.
get_audio_path_NoLookup(reg, audio_id) == Some(<<"audio", audio_id, <<"unknown">>>>)

\* AudioService.get_audio_path on the registry reg: None for an id without
\* an Audio row, else the path {root}/audio/{audio_id}/{filename}.
get_audio_path(reg, audio_id) ==
  IF audio_id \in DOMAIN reg
  THEN Some(<<"audio", audio_id, reg[audio_id]>>)
  ELSE None

\* str(path) of a file name: its parts joined by dots.
RECURSIVE JoinDots(_)
JoinDots(parts) ==
  IF Len(parts) = 0 THEN ""
  ELSE IF Len(parts) = 1 THEN parts[1]
  ELSE parts[1] \o "." \o JoinDots(Tail(parts))

\* str(path) of an audio path {root}/audio/{audio_id}/{filename}.
PathText(path) == path[1] \o "/" \o path[2] \o "/" \o JoinDots(path[3])

\* audio_file_path.exists() answering True without looking at the disk.
path_exists_Always(files, audio_id) == TRUE

\* audio_file_path.exists() for the file of audio_id, files being the audio
\* ids whose file is on disk.
path_exists(files, audio_id) == audio_id \in files

(* -------------------------- Pipeline Router --------------------------- *)

\* Path(audio_file_path).name.rsplit(".", 1)[0]
TrackOf(filename) ==
  IF Len(filename) > 1 THEN SubSeq(filename, 1, Len(filename) - 1) ELSE filename

\* "{track}.{stem}.{ext}".format(track, stem, ext=DEFAULT_STEM_FORMAT)
StemFileName(track, stem) == track \o <<stem, DEFAULT_STEM_FORMAT>>

\* stems_path.glob("*.mp3") over the directory listing dir
GlobStems(dir) ==
  {f \in dir : Len(f) > 1 /\ f[Len(f)] = DEFAULT_STEM_FORMAT}

\* stem_file.stem, then everything after its first dot when it has one.
StemNameOf(file) ==
  LET stem == SubSeq(file, 1, Len(file) - 1)
  IN  IF Len(stem) > 1 THEN Tail(stem) ELSE stem

\* RelativePath for a stems directory that is not scoped by the job id.
RelativePath_Unscoped(job_id, file) == <<"jobs", "shared", "stems", file>>

\* stem_file.relative_to(storage_root)
RelativePath(job_id, file) == <<"jobs", job_id, "stems", file>>

\* The manifest process_stem_separation collects from the stems directory:
\* stem name -> storage-relative path.  (Two files of one directory never
\* share a stem name here, every file being written for the same track.)
CollectOutput(job_id, dir) ==
  LET found == GlobStems(dir)
  IN  [k \in {StemNameOf(f) : f \in found} |->
         RelativePath(job_id, CHOOSE f \in found : StemNameOf(f) = k)]

\* The files written when the stems in `written` have been saved.
SavedFiles(filename, written) ==
  {StemFileName(TrackOf(filename), s) : s \in written}

\* raise RuntimeError(f"Failed to separate audio: {e}") from e
SeparationError(e) == Exc("other", "Failed to separate audio: " \o e.msg)
\* raise RuntimeError(f"Failed to save stem '{stem}': {e}") from e
SaveError(e) == Exc("other", "Failed to save stem: " \o e.msg)
\* raise NotImplementedError("... not yet implemented")
NotImplemented(job_type) ==
  Exc("other", IF job_type = MELODY_EXTRACTION
               THEN "Melody extraction not yet implemented"
               ELSE "Chord analysis not yet implemented")

(* ------------------------------- state -------------------------------- *)

VARIABLES
  audios,   \* Audio rows: audio id -> filename
  disk,     \* audio ids whose file exists under {root}/audio/{audio_id}/
  jobs,     \* Job rows: job id -> row
  stems,    \* job id -> the files in {root}/jobs/{job_id}/stems
  tasks,    \* process_audio_job task ids -> delivery state
  poll,     \* the poll worker's position in poll_and_process
  http,     \* the last create_job request and its response
  txn,      \* open update_job_status calls of two database sessions
  fs        \* the directory tree under the storage root, as LocalStorage's
            \* path operations see it (followed by StorageSpec only)

vars == <<audios, disk, jobs, stems, tasks, poll, http, txn, fs>>

\* The error a Job Store call raises while the database is unreachable
\* (SQLAlchemy wraps driver errors in its own exception classes, none of
\* them a ConnectionError, TimeoutError or IOError).
DbError == Exc("other", "database unavailable")

\* The message process_audio_job.delay(job_id) publishes.  pc: queued (in the
\* broker), run (an execution has marked the job running), returned (the
\* task returned a result, acknowledged), raised (ended by an exception that
\* is not retried), exhausted (ended by a retried kind with no retry left).
NewTask(job_id) ==
  [job |-> job_id,
   retries |-> 0,     \* self.request.retries
   pc |-> "queued",
   pipe |-> "none",   \* how the pipeline ended in the execution that
                      \* returned: none (not run) | ok | transient | other
                      \* | not_implemented (the processor recorded its
                      \* NotImplementedError itself)
   at |-> "none",     \* where the pipeline failed in that execution: setup
                      \* | separate | save (nowhere when it did not fail)
   exc |-> "none",    \* the kind of the exception the last execution that
                      \* raised ended with
   res |-> None,      \* the result dict the execution returned
   worker |-> ""]     \* the worker process holding the unacknowledged
                      \* message ("" while it is in the broker; followed
                      \* by WorkerSpec only)

NoCall == [code |-> 0, audio |-> "", type |-> "", broker |-> TRUE, job |-> None, body |-> None]

Idle == [pc |-> "idle", job |-> ""]

\* No update_job_status call is open.  base: the jobs table when the first
\* call of the current round read it; calls: session -> its call.
NoTxn == [base |-> <<>>, calls |-> <<>>]

\* The storage root before anything was stored: not even the root
\* directory exists.  dirs: the directories, as paths relative to the root
\* (<<>> is the root itself); files: file path -> content; ret: the path the
\* last path operation returned.
NoTree == [dirs |-> {}, files |-> <<>>, ret |-> None]

Init ==
  /\ \E reg \in {<<>>} \cup {[a \in AudioIds |-> f] : f \in FileNames} :
       /\ audios = reg
       /\ disk \in SUBSET (DOMAIN reg)
  /\ jobs = <<>>
  /\ stems = [j \in JobIds \cup PairJobIds |-> {}]
  /\ tasks = <<>>
  /\ poll = Idle
  /\ http = NoCall
  /\ txn = NoTxn
  /\ fs = NoTree

\* uuid4(): an id no row carries.
FreshJobId == CHOOSE id \in JobIds : id \notin DOMAIN jobs

(* ------------------------- creation and enqueue ----------------------- *)

\* JobService.create_job(uuid4(), job_type, input_data): the Job Store's
\* create operation, status defaulting to queued.
JobServiceCreateJob(job_type, input_audio) ==
  /\ DOMAIN jobs # JobIds
  /\ jobs' = jobs @@ (FreshJobId :> NewJob(job_type, input_audio, QUEUED))
  /\ UNCHANGED <<audios, disk, stems, tasks, poll, http, txn, fs>>

\* JobService.create_job followed by process_audio_job.delay for the job id
\* job_id (the two calls the create_job endpoint makes after its
\* validation): the row is committed and its message published.
CreateAndDelay(job_id, job_type, input_audio) ==
  /\ job_id \notin DOMAIN jobs
  /\ jobs' = jobs @@ (job_id :> NewJob(job_type, input_audio, QUEUED))
  /\ tasks' = Append(tasks, NewTask(job_id))
  /\ UNCHANGED <<audios, disk, stems, poll, http, txn, fs>>

\* process_audio_job.delay(str(job_id)) with the broker reachable.
Delay(job_id) ==
  /\ job_id \in DOMAIN jobs
  /\ Len(tasks) < MaxTasks
  /\ tasks' = Append(tasks, NewTask(job_id))
  /\ UNCHANGED <<audios, disk, jobs, stems, poll, http, txn, fs>>

\* The names the valid_types list of the create_job endpoint looks up on
\* class JobType, in order.
ValidTypeNames ==
  <<"STEM_SEPARATION", "MIDI_CONVERSION", "MELODY_EXTRACTION", "CHORD_ANALYSIS">>

\* Evaluating the valid_types list: the attribute values, or None for the
\* AttributeError raised when class JobType lacks one of the names.
ValidTypes ==
  IF \A i \in DOMAIN ValidTypeNames : ValidTypeNames[i] \in DOMAIN JobTypeAttrs
  THEN Some({JobTypeAttrs[ValidTypeNames[i]] : i \in DOMAIN ValidTypeNames})
  ELSE None

Response(code, audio_id, job_type, broker, job, body) ==
  [code |-> code, audio |-> audio_id, type |-> job_type, broker |-> broker,
   job |-> job, body |-> body]

\* POST /jobs: the create_job endpoint, called with an audio id and a job
\* type, the broker reachable or not (process_audio_job.delay raising).
create_job(audio_id, job_type, broker) ==
  /\ IF get_audio_path(audios, audio_id) = None
     THEN \* 404: audio not found
          /\ http' = Response(404, audio_id, job_type, broker, None, None)
          /\ UNCHANGED <<jobs, tasks>>
     ELSE IF ValidTypes = None
     THEN \* AttributeError escapes the handler: 500, nothing persisted
          /\ http' = Response(500, audio_id, job_type, broker, None, None)
          /\ UNCHANGED <<jobs, tasks>>
     ELSE IF job_type \notin ValidTypes[1]
     THEN \* 400: invalid job type
          /\ http' = Response(400, audio_id, job_type, broker, None, None)
          /\ UNCHANGED <<jobs, tasks>>
     ELSE /\ DOMAIN jobs # JobIds
          /\ broker => Len(tasks) < MaxTasks
          /\ jobs' = jobs @@ (FreshJobId :> NewJob(job_type, audio_id, QUEUED))
          /\ tasks' = IF broker THEN Append(tasks, NewTask(FreshJobId)) ELSE tasks
          /\ http' = Response(201, audio_id, job_type, broker, Some(FreshJobId),
                              Some(NewJob(job_type, audio_id, QUEUED)))
  /\ UNCHANGED <<audios, disk, stems, poll, txn, fs>>

\* The answer to GET /jobs/{job_id}.
JobResponse(code, job_id, body) ==
  [code |-> code, audio |-> "", type |-> "", broker |-> TRUE,
   job |-> Some(job_id), body |-> body, method |-> "GET"]

\* GET /jobs/{job_id}: the get_job endpoint.  404 for an id without a row;
\* else _build_job_response copies the row's columns into the response
\* (500 when the stored audio_id is no UUID and UUID(...) raises).
get_job(job_id) ==
  /\ http' = IF job_id \notin DOMAIN jobs
             THEN JobResponse(404, job_id, None)
             ELSE IF jobs[job_id].input \in {NoAudioId, BadAudioId}
             THEN JobResponse(500, job_id, None)
             ELSE JobResponse(200, job_id, Some(jobs[job_id]))
  /\ UNCHANGED <<audios, disk, jobs, stems, tasks, poll, txn, fs>>

(* ------------------------------ upload -------------------------------- *)

\* The ids uuid4() gives to uploaded audio.
UploadIds == {"a1", "a2"}

\* The Audio row of id a as create_audio stores it: the sanitized filename
\* and the path relative to the storage root.
AudioRow(reg, a) ==
  [id |-> a, filename |-> reg[a], file_path |-> <<"audio", a, reg[a]>>]

\* What upload_audio raises, and where: "declared" is the 413 raised before
\* the try block when the declared size is too large, "oversize" the 413
\* raised inside it after the saved file was measured and unlinked, "save"
\* the IOError of save_audio_file, "db" the error of create_audio.
UploadRaises(fault) ==
  IF fault \in {"declared", "oversize"}
  THEN [class |-> "HTTPException", status |-> 413, in_try |-> fault = "oversize"]
  ELSE IF fault = "save" THEN [class |-> "IOError", status |-> 0, in_try |-> TRUE]
  ELSE [class |-> "SQLAlchemyError", status |-> 0, in_try |-> TRUE]

\* The exception classes above all derive from Exception.
ExceptionSubclasses == {"HTTPException", "IOError", "SQLAlchemyError"}

\* The status upload_audio answers with: 201, or the status of the
\* HTTPException that leaves the function; an exception raised inside the
\* try block is caught by `except Exception` and replaced by a 500.
UploadStatus(fault) ==
  IF fault = "none" THEN 201
  ELSE LET e == UploadRaises(fault)
       IN  IF e.in_try /\ e.class \in ExceptionSubclasses
           THEN 500
           ELSE e.status

\* The answer to an upload under audio_id; upload: how the request went.
UploadResponse(code, audio_id, fault) ==
  [code |-> code, audio |-> audio_id, type |-> "", broker |-> TRUE,
   job |-> None, body |-> None, upload |-> fault]

\* upload_audio storing under an id that is already taken.
upload_audio_Reuse(audio_id, filename, fault) ==
  /\ IF fault \in {"declared", "save", "oversize"}
     THEN UNCHANGED <<audios, disk>>
     ELSE IF fault = "db"
     THEN audios' = audios /\ disk' = disk \cup {audio_id}
     ELSE /\ disk' = disk \cup {audio_id}
          /\ audios' = [a \in DOMAIN audios \cup {audio_id} |->
                          IF a = audio_id THEN filename ELSE audios[a]]
  /\ http' = UploadResponse(UploadStatus(fault), audio_id, fault)
  /\ UNCHANGED <<jobs, stems, tasks, poll, txn, fs>>

\* POST /audio: upload_audio under the fresh id audio_id.  fault:
\* "declared" when the declared size is too large (nothing is saved), "save"
\* when save_audio_file raises before the file exists, "oversize" when the
\* saved file is too large and is unlinked, "db" when create_audio raises
\* (the saved file stays, without a row), else "none": the file is saved
\* and the Audio row created.
upload_audio(audio_id, filename, fault) ==
  /\ audio_id \notin DOMAIN audios \cup disk
  /\ IF fault \in {"declared", "save", "oversize"}
     THEN UNCHANGED <<audios, disk>>
     ELSE IF fault = "db"
     THEN audios' = audios /\ disk' = disk \cup {audio_id}
     ELSE /\ disk' = disk \cup {audio_id}
          /\ audios' = [a \in DOMAIN audios \cup {audio_id} |->
                          IF a = audio_id THEN filename ELSE audios[a]]
  /\ http' = UploadResponse(UploadStatus(fault), audio_id, fault)
  /\ UNCHANGED <<jobs, stems, tasks, poll, txn, fs>>

(* ------------------------- process_audio_job -------------------------- *)

SetTask(t, rec) == [tasks EXCEPT ![t] = rec]

\* The result dicts process_audio_job returns:
\* {"status": "succeeded", "output": output_files} and
\* {"status": "failed", "error": error_msg}.
SucceededResult(output_files) ==
  [status |-> "succeeded", output |-> Some(output_files), error |-> None]
FailedResult(error_msg) ==
  [status |-> "failed", output |-> None, error |-> Some(error_msg)]

\* The task function returned a result dict: Celery acknowledges the
\* message and schedules no retry.
Returned(task, pipe) == [task EXCEPT !.pc = "returned", !.pipe = pipe, !.worker = ""]

\* AfterRaise retrying whatever exception the execution raised.
AfterRaise_RetryAll(task, e) ==
  IF task.retries < MaxRetries
  THEN [task EXCEPT !.pc = "queued", !.retries = @ + 1, !.exc = e.kind, !.worker = ""]
  ELSE [task EXCEPT !.pc = "exhausted", !.exc = e.kind, !.worker = ""]

\* Celery's handling of an exception e raised by an execution of task: a
\* retry (a new message of the same task id) for the kinds in autoretry_for
\* while retries remain, else the task ends in failure.
AfterRaise(task, e) ==
  IF e.kind \in autoretry_for
  THEN IF task.retries < MaxRetries
       THEN [task EXCEPT !.pc = "queued", !.retries = @ + 1, !.exc = e.kind, !.worker = ""]
       ELSE [task EXCEPT !.pc = "exhausted", !.exc = e.kind, !.worker = ""]
  ELSE [task EXCEPT !.pc = "raised", !.exc = e.kind, !.worker = ""]

\* The outer handler of process_audio_job: a best-effort update to failed
\* through a fresh session; when that update raises (upd_ok false) the
\* failure is logged and dropped.  The table after the handler.
OuterHandler(tbl, job_id, e, upd_ok) ==
  IF upd_ok
  THEN update_job_status(tbl, job_id, FAILED,
                         Some("Unexpected error processing job: " \o e.msg), None, None)
  ELSE tbl

\* A job id that is no UUID.
MalformedJobId == "not-a-job-uuid"

\* UUID(job_id) accepting every string.
IsUuid_Any(job_id) == TRUE

\* UUID(job_id) parses (no ValueError): job_id is none of the malformed
\* strings.
IsUuid(job_id) == job_id \notin {MalformedJobId, BadAudioId}

\* f"Invalid job_id format: {job_id}"
InvalidJobId(job_id) == "Invalid job_id format: " \o job_id
\* f"Job {job_id} not found"
JobNotFound(job_id) == "Job " \o job_id \o " not found"

\* process_audio_job.delay(job_id) called with any string, once per id.
Enqueue(job_id) ==
  /\ \A t \in DOMAIN tasks : tasks[t].job # job_id
  /\ tasks' = Append(tasks, NewTask(job_id))
  /\ UNCHANGED <<audios, disk, jobs, stems, poll, http, txn, fs>>

\* f"Audio {audio_id} not found"
AudioNotFound(audio_id) == "Audio " \o audio_id \o " not found"
\* f"Audio file not found: {audio_file_path}"
AudioFileNotFound(path) == "Audio file not found: " \o PathText(path)

\* A worker takes the message of task t and runs process_audio_job up to and
\* including the update to running: load the job, validate its audio
\* reference, resolve the audio path.  fault: "db" when a Job Store call of
\* these lines raises, "storage" when creating the audio directory in
\* LocalStorage.audio_path raises OSError, else "none".  upd_ok: the outer
\* handler's update commits.
Start(t, fault, upd_ok) ==
  /\ t \in DOMAIN tasks
  /\ tasks[t].pc = "queued"
  /\ LET task == tasks[t]
         job_id == task.job
         fail(msg) ==
           /\ jobs' = update_job_status(jobs, job_id, FAILED, Some(msg), None, None)
           /\ tasks' = SetTask(t, [Returned(task, "none") EXCEPT
                                       !.res = Some(FailedResult(msg))])
         raise(e) ==
           /\ jobs' = OuterHandler(jobs, job_id, e, upd_ok)
           /\ tasks' = SetTask(t, AfterRaise(task, e))
     IN  IF ~IsUuid(job_id)
         THEN /\ tasks' = SetTask(t, [Returned(task, "none") EXCEPT
                                          !.res = Some(FailedResult(InvalidJobId(job_id)))])
              /\ jobs' = jobs
         ELSE IF fault = "db" THEN raise(DbError)
         ELSE IF job_id \notin DOMAIN jobs
         THEN /\ tasks' = SetTask(t, [Returned(task, "none") EXCEPT
                                          !.res = Some(FailedResult(JobNotFound(job_id)))])
              /\ jobs' = jobs
         ELSE IF jobs[job_id].input = NoAudioId
         THEN fail("Job missing audio_id in input")
         ELSE IF jobs[job_id].input = BadAudioId
         THEN fail("Invalid audio_id format")
         ELSE IF get_audio_path(audios, jobs[job_id].input) = None
         THEN fail(AudioNotFound(jobs[job_id].input))
         ELSE IF fault = "storage"
         THEN raise(Exc("transient", "Permission denied"))
         ELSE IF ~path_exists(disk, jobs[job_id].input)
         THEN fail(AudioFileNotFound(get_audio_path(audios, jobs[job_id].input)[1]))
         ELSE /\ jobs' = update_job_status(jobs, job_id, RUNNING, None, Some(0), None)
              /\ tasks' = SetTask(t, [task EXCEPT !.pc = "run"])
  /\ UNCHANGED <<audios, disk, stems, poll, http, txn, fs>>

\* What running the pipeline can do: where the engine or the file system
\* fails ("setup": constructing the services, creating the directory or
\* reading the sample rate; "separate"; "save"; or "nowhere"), with which
\* exception, and which stems were saved.
PipelineRuns ==
  {[at |-> "nowhere", e |-> Exc("other", ""), written |-> StemSet]}
  \cup {[at |-> "setup", e |-> e, written |-> {}] : e \in EngineExcs}
  \cup {[at |-> "separate", e |-> e, written |-> {}] : e \in WrappedExcs}
  \cup {[at |-> "save", e |-> e, written |-> SavedBefore(n)] :
          e \in WrappedExcs, n \in 0..(Len(StemOrder) - 1)}

\* process_stem_separation going on after a failed save: the stems that
\* were saved are collected and returned as the manifest.
process_stem_separation_SkipFailedSave(job_id, filename, dir, r) ==
  IF r.at = "setup" THEN [ok |-> FALSE, manifest |-> <<>>, exc |-> r.e]
  ELSE IF r.at = "separate"
  THEN [ok |-> FALSE, manifest |-> <<>>, exc |-> SeparationError(r.e)]
  ELSE [ok |-> TRUE,
        manifest |-> CollectOutput(job_id, dir \cup SavedFiles(filename, r.written)),
        exc |-> Exc("other", "")]

\* PipelineRunnerService(storage).process_stem_separation for job_id under
\* the run r, dir being the stems directory before the run: the manifest
\* (Some) or the exception it raises.
process_stem_separation(job_id, filename, dir, r) ==
  IF r.at = "setup" THEN [ok |-> FALSE, manifest |-> <<>>, exc |-> r.e]
  ELSE IF r.at = "separate"
  THEN [ok |-> FALSE, manifest |-> <<>>, exc |-> SeparationError(r.e)]
  ELSE IF r.at = "save"
  THEN [ok |-> FALSE, manifest |-> <<>>, exc |-> SaveError(r.e)]
  ELSE [ok |-> TRUE,
        manifest |-> CollectOutput(job_id, dir \cup SavedFiles(filename, r.written)),
        exc |-> Exc("other", "")]

\* RecordStem writing the progress of a finished job as a percentage.
RecordStem_Percent(tbl, job_id, res, db_fails) ==
  IF res.ok /\ db_fails = 0
  THEN [tbl |-> update_job_status(tbl, job_id, SUCCEEDED, None, Some(100), Some(res.manifest)),
        exc |-> None, status |-> "succeeded", result |-> Some(SucceededResult(res.manifest))]
  ELSE LET e == IF res.ok THEN DbError ELSE res.exc
           left == IF res.ok THEN db_fails - 1 ELSE db_fails
       IN  IF left = 0
           THEN [tbl |-> update_job_status(tbl, job_id, FAILED, Some(e.msg), None, None),
                 exc |-> None, status |-> "failed", result |-> Some(FailedResult(e.msg))]
           ELSE [tbl |-> tbl, exc |-> Some(DbError), status |-> "raised", result |-> None]

\* RecordStem with the update to succeeded carrying the status alone, as the
\* poll worker's update to completed does.
RecordStem_StatusOnly(tbl, job_id, res, db_fails) ==
  IF res.ok /\ db_fails = 0
  THEN [tbl |-> update_job_status(tbl, job_id, SUCCEEDED, None, None, None),
        exc |-> None, status |-> "succeeded", result |-> Some(SucceededResult(res.manifest))]
  ELSE LET e == IF res.ok THEN DbError ELSE res.exc
           left == IF res.ok THEN db_fails - 1 ELSE db_fails
       IN  IF left = 0
           THEN [tbl |-> update_job_status(tbl, job_id, FAILED, Some(e.msg), None, None),
                 exc |-> None, status |-> "failed", result |-> Some(FailedResult(e.msg))]
           ELSE [tbl |-> tbl, exc |-> Some(DbError), status |-> "raised", result |-> None]

\* RecordStem recording a fixed text in place of str(e).
RecordStem_FixedMessage(tbl, job_id, res, db_fails) ==
  IF res.ok /\ db_fails = 0
  THEN [tbl |-> update_job_status(tbl, job_id, SUCCEEDED, None, Some(1), Some(res.manifest)),
        exc |-> None, status |-> "succeeded", result |-> Some(SucceededResult(res.manifest))]
  ELSE LET e == IF res.ok THEN DbError ELSE res.exc
           left == IF res.ok THEN db_fails - 1 ELSE db_fails
       IN  IF left = 0
           THEN [tbl |-> update_job_status(tbl, job_id, FAILED, Some("Processing failed"), None, None),
                 exc |-> None, status |-> "failed", result |-> Some(FailedResult(e.msg))]
           ELSE [tbl |-> tbl, exc |-> Some(DbError), status |-> "raised", result |-> None]

\* _process_stem_separation and the handler of process_audio_job around it,
\* db_fails Job Store calls in a row raising: the row of the job afterwards
\* and the exception that reaches the outer handler (None when the task
\* returns).
RecordStem(tbl, job_id, res, db_fails) ==
  IF res.ok /\ db_fails = 0
  THEN [tbl |-> update_job_status(tbl, job_id, SUCCEEDED, None, Some(1), Some(res.manifest)),
        exc |-> None, status |-> "succeeded", result |-> Some(SucceededResult(res.manifest))]
  ELSE LET e == IF res.ok THEN DbError ELSE res.exc
           left == IF res.ok THEN db_fails - 1 ELSE db_fails
       IN  IF left = 0
           THEN [tbl |-> update_job_status(tbl, job_id, FAILED, Some(e.msg), None, None),
                 exc |-> None, status |-> "failed", result |-> Some(FailedResult(e.msg))]
           ELSE [tbl |-> tbl, exc |-> Some(DbError), status |-> "raised", result |-> None]

\* RecordFailure with the update to failed carrying no message.
RecordFailure_NoMessage(tbl, job_id, own_msg, db_fails) ==
  IF db_fails = 0
  THEN [tbl |-> update_job_status(tbl, job_id, FAILED, None, None, None),
        exc |-> None, status |-> "failed", result |-> Some(FailedResult(own_msg))]
  ELSE IF db_fails = 1
  THEN [tbl |-> update_job_status(tbl, job_id, FAILED, Some(DbError.msg), None, None),
        exc |-> None, status |-> "failed", result |-> Some(FailedResult(DbError.msg))]
  ELSE [tbl |-> tbl, exc |-> Some(DbError), status |-> "raised", result |-> None]

\* _process_melody_extraction / _process_chord_analysis (NotImplementedError
\* recorded by the processor itself) and the branch for an unknown type,
\* each inside the handler of process_audio_job.  e is the exception the
\* processor raised, own_msg the message of the first update to failed.
RecordFailure(tbl, job_id, own_msg, db_fails) ==
  IF db_fails = 0
  THEN [tbl |-> update_job_status(tbl, job_id, FAILED, Some(own_msg), None, None),
        exc |-> None, status |-> "failed", result |-> Some(FailedResult(own_msg))]
  ELSE IF db_fails = 1
  THEN [tbl |-> update_job_status(tbl, job_id, FAILED, Some(DbError.msg), None, None),
        exc |-> None, status |-> "failed", result |-> Some(FailedResult(DbError.msg))]
  ELSE [tbl |-> tbl, exc |-> Some(DbError), status |-> "raised", result |-> None]

\* The message of the routing block's last branch without the type in it.
UnknownJobType_NoType(job_type) == "Unknown job type"

\* f"Unknown job type: {job.type}"
UnknownJobType(job_type) == "Unknown job type: " \o job_type

\* How the pipeline ended, for the task's record.
PipeOutcome(r) == IF r.at = "nowhere" THEN "ok" ELSE r.e.kind

\* The routing block of process_audio_job for task t: the processor of the
\* job's type runs (under the run r) and the outcome is written to the Job
\* Store, db_fails consecutive Job Store calls raising; upd_ok as in Start
\* (it matters only when an exception reaches the outer handler).
\* lost: the worker is lost after the task's last commit and before the
\* acknowledgment, so the message is delivered again.  A melody or chord
\* job constructs the services ("setup") and then meets the processor's
\* NotImplementedError; an unknown type runs no processor.
Finish(t, r, db_fails, upd_ok, lost) ==
  /\ t \in DOMAIN tasks
  /\ tasks[t].pc = "run"
  /\ lost => upd_ok
  /\ LET task == tasks[t]
         job_id == task.job
         job == jobs[job_id]
         filename == audios[job.input]
         out ==
           IF job.type = STEM_SEPARATION
           THEN RecordStem(jobs, job_id,
                           process_stem_separation(job_id, filename, stems[job_id], r),
                           db_fails)
           ELSE IF job.type \in {MELODY_EXTRACTION, CHORD_ANALYSIS}
           THEN IF r.at = "setup"
                THEN RecordStem(jobs, job_id,
                                [ok |-> FALSE, manifest |-> <<>>, exc |-> r.e], db_fails)
                ELSE RecordFailure(jobs, job_id, NotImplemented(job.type).msg, db_fails)
           ELSE RecordFailure(jobs, job_id, UnknownJobType(job.type), db_fails)
         pipe == IF job.type = STEM_SEPARATION THEN PipeOutcome(r)
                 ELSE IF job.type \in {MELODY_EXTRACTION, CHORD_ANALYSIS}
                 THEN (IF r.at = "setup" THEN r.e.kind
                       ELSE IF db_fails = 0 THEN "not_implemented" ELSE DbError.kind)
                 ELSE "none"
     IN  /\ job.type # STEM_SEPARATION => r.at \in {"setup", "nowhere"}
         /\ job.type \notin {STEM_SEPARATION, MELODY_EXTRACTION, CHORD_ANALYSIS}
              => r.at = "nowhere"
         /\ stems' = [stems EXCEPT ![job_id] =
                        IF job.type = STEM_SEPARATION
                        THEN @ \cup SavedFiles(filename, r.written) ELSE @]
         /\ IF out.exc = None
            THEN /\ upd_ok
                 /\ jobs' = out.tbl
                 /\ tasks' = SetTask(t, IF lost
                                        THEN [task EXCEPT !.pc = "queued", !.worker = ""]
                                        ELSE [Returned(task, pipe) EXCEPT
                                                !.at = r.at, !.res = out.result])
            ELSE /\ ~lost
                 /\ jobs' = OuterHandler(out.tbl, job_id, out.exc[1], upd_ok)
                 /\ tasks' = SetTask(t, AfterRaise(task, out.exc[1]))
  /\ UNCHANGED <<audios, disk, poll, http, txn, fs>>

\* WorkerLost with the message acknowledged when its execution started: it
\* is gone with the worker.
WorkerLost_AckEarly(t, written) ==
  /\ t \in DOMAIN tasks
  /\ tasks[t].pc = "run"
  /\ LET job_id == tasks[t].job
     IN  stems' = [stems EXCEPT ![job_id] =
                     IF jobs[job_id].type = STEM_SEPARATION
                     THEN @ \cup SavedFiles(audios[jobs[job_id].input], written) ELSE @]
  /\ tasks' = SetTask(t, [tasks[t] EXCEPT !.pc = "returned", !.worker = ""])
  /\ UNCHANGED <<audios, disk, jobs, poll, http, txn, fs>>

\* The worker executing task t is lost while the pipeline runs, the stems in
\* `written` saved so far: the unacknowledged message is delivered again
\* (task_acks_late, task_reject_on_worker_lost).
WorkerLost(t, written) ==
  /\ t \in DOMAIN tasks
  /\ tasks[t].pc = "run"
  /\ LET job_id == tasks[t].job
     IN  stems' = [stems EXCEPT ![job_id] =
                     IF jobs[job_id].type = STEM_SEPARATION
                     THEN @ \cup SavedFiles(audios[jobs[job_id].input], written) ELSE @]
  /\ tasks' = SetTask(t, [tasks[t] EXCEPT !.pc = "queued", !.worker = ""])
  /\ UNCHANGED <<audios, disk, jobs, poll, http, txn, fs>>

\* The execution of task t exceeds task_time_limit while the pipeline runs,
\* the stems in `written` saved so far: the pool kills the child process
\* (no handler of process_audio_job runs), and the request, timed out, is
\* acknowledged, so the message is not delivered again.
TimeLimit(t, written) ==
  /\ t \in DOMAIN tasks
  /\ tasks[t].pc = "run"
  /\ LET job_id == tasks[t].job
     IN  stems' = [stems EXCEPT ![job_id] =
                     IF jobs[job_id].type = STEM_SEPARATION
                     THEN @ \cup SavedFiles(audios[jobs[job_id].input], written) ELSE @]
  /\ tasks' = SetTask(t, [tasks[t] EXCEPT !.pc = "timeout", !.exc = "time_limit", !.worker = ""])
  /\ UNCHANGED <<audios, disk, jobs, poll, http, txn, fs>>

(* --------------------------- AudioJobWorker --------------------------- *)

\* What the body of AudioJobWorker.process_job raises after the update to
\* running: ValueError when jobs/{job_id}/input holds no audio file, else
\* AttributeError, PipelineRunnerService having no method `run`.
PollPipelineError(has_input) ==
  IF has_input
  THEN Exc("other", "'PipelineRunnerService' object has no attribute 'run'")
  ELSE Exc("other", "No audio file found in input")

\* poll_and_process lists the queued jobs and takes the first one.
PollFetch(job_id) ==
  /\ poll.pc = "idle"
  /\ job_id \in get_pending_jobs(jobs)
  /\ poll' = [pc |-> "fetched", job |-> job_id]
  /\ UNCHANGED <<audios, disk, jobs, stems, tasks, http, txn, fs>>

\* process_job marks the job running (JobStatus.PROCESSING).  When that
\* update raises (db_fails >= 1) the handler records failed with str(e), or
\* raises too (db_fails = 2), and the exception ends this poll round.
PollClaim(db_fails) ==
  /\ poll.pc = "fetched"
  /\ IF db_fails = 0
     THEN /\ jobs' = update_job_status(jobs, poll.job, PROCESSING, None, None, None)
          /\ poll' = [poll EXCEPT !.pc = "proc"]
     ELSE /\ jobs' = IF db_fails = 1
                     THEN update_job_status(jobs, poll.job, FAILED,
                                            Some(DbError.msg), None, None)
                     ELSE jobs
          /\ poll' = Idle
  /\ UNCHANGED <<audios, disk, stems, tasks, http, txn, fs>>

\* The body of process_job raises, the handler records failed with str(e)
\* (unless that update raises: db_ok false) and re-raises; poll_and_process
\* catches the exception, which ends the round (the rest of the fetched
\* list is dropped until the next poll).
PollFail(has_input, db_ok) ==
  /\ poll.pc = "proc"
  /\ jobs' = IF db_ok
             THEN update_job_status(jobs, poll.job, FAILED,
                                    Some(PollPipelineError(has_input).msg), None, None)
             ELSE jobs
  /\ poll' = Idle
  /\ UNCHANGED <<audios, disk, stems, tasks, http, txn, fs>>

(* ------------------------- Celery worker pool ------------------------- *)

\* Two prefork pool processes consuming the queue.
Workers == {"w1", "w2"}

\* celery_app.conf: worker_prefetch_multiplier and task_acks_late.
worker_prefetch_multiplier == 1
task_acks_late == TRUE

\* The messages worker process w holds unacknowledged: those it has
\* reserved and, acknowledgment being late, the one it is executing.
Unacked(w) ==
  {t \in DOMAIN tasks :
     /\ tasks[t].worker = w
     /\ tasks[t].pc = "queued" \/ (task_acks_late /\ tasks[t].pc = "run")}

\* The messages worker process w is executing process_audio_job for.
Executing(w) == {t \in DOMAIN tasks : tasks[t].worker = w /\ tasks[t].pc = "run"}

\* CanReserve with messages acknowledged when their execution starts, so
\* that the executing one no longer counts against the prefetch limit.
CanReserve_AckEarly(w) ==
  Cardinality(Unacked(w) \ Executing(w)) < worker_prefetch_multiplier

\* The prefetch limit of one pool process: it takes a further delivery
\* only while it holds fewer than worker_prefetch_multiplier
\* unacknowledged messages.
CanReserve(w) == Cardinality(Unacked(w)) < worker_prefetch_multiplier

\* The broker delivers the message of task t to worker process w.
Reserve(w, t) ==
  /\ t \in DOMAIN tasks
  /\ tasks[t].pc = "queued"
  /\ tasks[t].worker = ""
  /\ CanReserve(w)
  /\ tasks' = SetTask(t, [tasks[t] EXCEPT !.worker = w])
  /\ UNCHANGED <<audios, disk, jobs, stems, poll, http, txn, fs>>

\* Worker process w, executing nothing, starts process_audio_job for the
\* message it holds.
Execute(w, t, fault, upd_ok) ==
  /\ t \in DOMAIN tasks
  /\ tasks[t].worker = w
  /\ Executing(w) = {}
  /\ Start(t, fault, upd_ok)

\* The execution on worker process w runs to its end.
Complete(w, t, r, db_fails, upd_ok, lost) ==
  /\ t \in DOMAIN tasks
  /\ tasks[t].worker = w
  /\ Finish(t, r, db_fails, upd_ok, lost)

\* Worker process w is lost while executing task t.
Lost(w, t, written) ==
  /\ t \in DOMAIN tasks
  /\ tasks[t].worker = w
  /\ WorkerLost(t, written)

(* ---------------------------- LocalStorage ---------------------------- *)

\* A path and its parents, up to the storage root.
Prefixes(path) == {SubSeq(path, 1, n) : n \in 0..Len(path)}

\* path.mkdir(parents=True, exist_ok=True) on the tree: the directory and
\* its missing parents are created, existing ones are left alone; the call
\* raises (ok false) when the path or a parent exists as a file.
mkdir(tree, path) ==
  IF \E q \in Prefixes(path) : q \in DOMAIN tree.files
  THEN [ok |-> FALSE, tree |-> tree]
  ELSE [ok |-> TRUE, tree |-> [tree EXCEPT !.dirs = @ \cup Prefixes(path)]]

\* What is stored at or under path.
Under(tree, path) ==
  {q \in tree.dirs \cup DOMAIN tree.files :
     Len(q) >= Len(path) /\ SubSeq(q, 1, Len(path)) = path}

\* job_path emptying a job directory that exists before returning it.
job_path_Recreate(tree, job_id) ==
  LET path == <<"jobs", job_id>>
      gone == Under(tree, path)
      kept == [tree EXCEPT !.dirs = @ \ gone,
                           !.files = [q \in DOMAIN tree.files \ gone |-> tree.files[q]]]
      m == mkdir(kept, path)
  IN  [ok |-> m.ok, tree |-> m.tree, path |-> path]

\* LocalStorage.job_path(job_id): the path root / JOBS_DIR / job_id (given
\* relative to the root), the directory created before the return.
job_path(tree, job_id) ==
  LET path == <<"jobs", job_id>>
      m == mkdir(tree, path)
  IN  [ok |-> m.ok, tree |-> m.tree, path |-> path]

\* LocalStorage.audio_path(audio_id)
audio_path(tree, audio_id) ==
  LET path == <<"audio", audio_id>>
      m == mkdir(tree, path)
  IN  [ok |-> m.ok, tree |-> m.tree, path |-> path]

\* LocalStorage.get_audio_file_path(audio_id, filename)
get_audio_file_path(tree, audio_id, filename) ==
  LET d == audio_path(tree, audio_id)
  IN  [ok |-> d.ok, tree |-> d.tree, path |-> Append(d.path, filename)]

\* The tree after a path operation returned: its result is kept in ret.
AfterCall(r) == [r.tree EXCEPT !.ret = Some(r.path)]

\* Ids and file names the storage operations are called with, and the
\* contents written to files.
StorageJobIds == {"j1", "j2"}
StorageAudioIds == {"a1"}
StoredNames == {JoinDots(f) : f \in {<<"song", "mp3">>}}
StemNames == {JoinDots(StemFileName(<<"song">>, s)) : s \in {"vocals"}}
Contents == {"x", "y"}

\* A caller asks for the directory of a job.
JobPathCall(job_id) ==
  /\ job_path(fs, job_id).ok
  /\ fs' = AfterCall(job_path(fs, job_id))
  /\ UNCHANGED <<audios, disk, jobs, stems, tasks, poll, http, txn>>

\* A caller asks for the directory of an audio.
AudioPathCall(audio_id) ==
  /\ audio_path(fs, audio_id).ok
  /\ fs' = AfterCall(audio_path(fs, audio_id))
  /\ UNCHANGED <<audios, disk, jobs, stems, tasks, poll, http, txn>>

\* A caller asks for the path of an audio file.
GetAudioFilePathCall(audio_id, filename) ==
  /\ get_audio_file_path(fs, audio_id, filename).ok
  /\ fs' = AfterCall(get_audio_file_path(fs, audio_id, filename))
  /\ UNCHANGED <<audios, disk, jobs, stems, tasks, poll, http, txn>>

\* LocalStorage.save_audio_file(audio_id, file, filename): the audio
\* directory is taken from audio_path and the file written (open "wb").
save_audio_file(audio_id, filename, content) ==
  LET d == audio_path(fs, audio_id)
      path == Append(d.path, filename)
  IN  /\ d.ok
      /\ path \notin d.tree.dirs
      /\ fs' = [d.tree EXCEPT !.files = (path :> content) @@ @, !.ret = Some(path)]
      /\ UNCHANGED <<audios, disk, jobs, stems, tasks, poll, http, txn>>

\* The pipeline writes a stem: the job directory is taken from job_path,
\* the stems directory made below it and the file saved.
SaveStem(job_id, file, content) ==
  LET d == job_path(fs, job_id)
      sd == mkdir(d.tree, Append(d.path, "stems"))
      path == d.path \o <<"stems", file>>
  IN  /\ d.ok /\ sd.ok
      /\ fs' = [sd.tree EXCEPT !.files = (path :> content) @@ @, !.ret = Some(d.path)]
      /\ UNCHANGED <<audios, disk, jobs, stems, tasks, poll, http, txn>>

(* ------------- update_job_status, statement by statement -------------- *)

\* The database sessions (SessionLocal()) of two processes.
Sessions == {"s1", "s2"}

Args(status, error_message, progress, output) ==
  [status |-> status, error_message |-> error_message,
   progress |-> progress, output |-> output]

\* The argument tuples the program calls update_job_status with: running
\* (push task), succeeded with a manifest, failed with str(e) (non-empty or
\* empty), and the poll worker's processing.
UpdateCalls ==
  {Args(RUNNING, None, Some(0), None),
   Args(SUCCEEDED, None, Some(1),
        Some(CollectOutput("j1", SavedFiles(<<"song", "mp3">>, StemSet)))),
   Args(FAILED, Some("boom"), None, None),
   Args(FAILED, Some(""), None, None),
   Args(PROCESSING, None, None, None)}

\* Assign storing every argument, supplied or not.
Assign_Overwrite(loaded, a) ==
  [loaded EXCEPT !.status = a.status,
                 !.error_message = a.error_message,
                 !.progress = a.progress,
                 !.output = a.output]

\* Assign with the new message appended to the stored one.
Assign_AppendMessage(loaded, a) ==
  [loaded EXCEPT !.status = a.status,
                 !.error_message = IF Truthy(a.error_message)
                                   THEN Some((IF @ = None THEN "" ELSE @[1]) \o a.error_message[1])
                                   ELSE @,
                 !.progress = IF a.progress # None THEN a.progress ELSE @,
                 !.output = IF a.output # None THEN a.output ELSE @]

\* job = self.get_job(job_id) followed by the attribute assignments: the
\* object the session holds, loaded as `loaded`, after the assignments.
Assign(loaded, a) ==
  [loaded EXCEPT !.status = a.status,
                 !.error_message = IF Truthy(a.error_message) THEN a.error_message ELSE @,
                 !.progress = IF a.progress # None THEN a.progress ELSE @,
                 !.output = IF a.output # None THEN a.output ELSE @]

\* self.db.commit(): the unit of work writes, into the row as it is in the
\* database now, the columns whose assigned value differs from the loaded
\* one (UPDATE jobs SET <changed columns> WHERE id = ...).
Flush(row, loaded, a) ==
  LET new == Assign(loaded, a)
  IN  [row EXCEPT !.status = IF new.status # loaded.status THEN new.status ELSE @,
                  !.error_message = IF new.error_message # loaded.error_message
                                    THEN new.error_message ELSE @,
                  !.progress = IF new.progress # loaded.progress THEN new.progress ELSE @,
                  !.output = IF new.output # loaded.output THEN new.output ELSE @]

\* Session s enters update_job_status(job_id, a...) and loads the row
\* (line 104).  For an unknown id the call returns None at once.
UpdateRead(s, job_id, a) ==
  /\ s \notin DOMAIN txn.calls
  /\ txn' = [base |-> IF DOMAIN txn.calls = {} THEN jobs ELSE txn.base,
             calls |-> txn.calls @@
                (s :> [job |-> job_id, args |-> a,
                       loaded |-> IF job_id \in DOMAIN jobs THEN Some(jobs[job_id]) ELSE None,
                       done |-> job_id \notin DOMAIN jobs,
                       result |-> None])]
  /\ UNCHANGED <<audios, disk, jobs, stems, tasks, poll, http, fs>>

\* Session s commits and refreshes (lines 113-114) and the call returns the
\* refreshed row.
UpdateCommit(s) ==
  /\ s \in DOMAIN txn.calls
  /\ ~txn.calls[s].done
  /\ LET c == txn.calls[s]
         row == Flush(jobs[c.job], c.loaded[1], c.args)
     IN  /\ jobs' = [jobs EXCEPT ![c.job] = row]
         /\ txn' = [txn EXCEPT !.calls[s] = [c EXCEPT !.done = TRUE, !.result = Some(row)]]
  /\ UNCHANGED <<audios, disk, stems, tasks, poll, http, fs>>

\* Every open call has returned: the sessions are free for their next calls.
UpdateReturn ==
  /\ DOMAIN txn.calls # {}
  /\ \A s \in DOMAIN txn.calls : txn.calls[s].done
  /\ txn' = NoTxn
  /\ UNCHANGED <<audios, disk, jobs, stems, tasks, poll, http, fs>>

(* --------------------------- specification ---------------------------- *)

\* The (type, input) pairs JobService.create_job is called with: every type
\* with the audio id, and stem separation with an unusable audio reference.
JobConfigs ==
  {<<ty, a>> : ty \in StoredTypes, a \in AudioIds}
  \cup {<<STEM_SEPARATION, a>> : a \in {NoAudioId, BadAudioId}}

\* Types a create_job request may name.
RequestTypes == {STEM_SEPARATION, UNKNOWN_TYPE}

\* The Job Store, the push workers and the poll worker.
Next ==
  \/ \E c \in JobConfigs : JobServiceCreateJob(c[1], c[2])
  \/ \E j \in JobIds : Delay(j)
  \/ \E t \in TaskIds, f \in {"none", "db", "storage"}, u \in BOOLEAN : Start(t, f, u)
  \/ \E t \in TaskIds, r \in PipelineRuns, n \in 0..2, u \in BOOLEAN, lost \in BOOLEAN :
       Finish(t, r, n, u, lost)
  \/ \E t \in TaskIds, n \in 0..Len(StemOrder) : WorkerLost(t, SavedBefore(n))
  \/ \E j \in JobIds : PollFetch(j)
  \/ \E n \in 0..2 : PollClaim(n)
  \/ \E h \in BOOLEAN, d \in BOOLEAN : PollFail(h, d)

Spec == Init /\ [][Next]_vars

\* The create_job endpoint in front of the Job Store and the push workers,
\* the database reachable throughout.
ApiNext ==
  \/ \E a \in AudioIds, ty \in RequestTypes, b \in BOOLEAN : create_job(a, ty, b)
  \/ \E a \in AudioIds : JobServiceCreateJob(STEM_SEPARATION, a)
  \/ \E j \in JobIds : Delay(j)
  \/ \E t \in TaskIds : Start(t, "none", TRUE)
  \/ \E t \in TaskIds, r \in PipelineRuns : Finish(t, r, 0, TRUE, FALSE)

ApiSpec == Init /\ [][ApiNext]_vars

\* Two stem separation jobs referencing the same audio, each with one
\* message, executed by push workers that run concurrently and may be lost.
PairNext ==
  \/ \E j \in PairJobIds, a \in AudioIds : CreateAndDelay(j, STEM_SEPARATION, a)
  \/ \E t \in DOMAIN tasks : Start(t, "none", TRUE)
  \/ \E t \in DOMAIN tasks, r \in PipelineRuns, lost \in BOOLEAN : Finish(t, r, 0, TRUE, lost)
  \/ \E t \in DOMAIN tasks, n \in 0..Len(StemOrder) : WorkerLost(t, SavedBefore(n))

PairSpec == Init /\ [][PairNext]_vars

\* Two sessions calling update_job_status on one job, their statements
\* interleaved.
UpdateNext ==
  \/ \E a \in AudioIds : JobServiceCreateJob(STEM_SEPARATION, a)
  \/ \E s \in Sessions, j \in JobIds, a \in UpdateCalls : UpdateRead(s, j, a)
  \/ \E s \in Sessions : UpdateCommit(s)
  \/ UpdateReturn

UpdateSpec == Init /\ [][UpdateNext]_vars

\* Uploads next to the creation and the push execution of a job that
\* references an uploaded audio (or an id without a row).
AudioNext ==
  \/ \E a \in UploadIds, f \in FileNames,
        fault \in {"none", "declared", "save", "oversize", "db"} :
       upload_audio(a, f, fault)
  \/ \E j \in JobIds, a \in UploadIds : CreateAndDelay(j, STEM_SEPARATION, a)
  \/ \E t \in DOMAIN tasks : Start(t, "none", TRUE)
  \/ \E t \in DOMAIN tasks, r \in PipelineRuns, lost \in BOOLEAN : Finish(t, r, 0, TRUE, lost)
  \/ \E t \in DOMAIN tasks, n \in 0..Len(StemOrder) : WorkerLost(t, SavedBefore(n))

AudioSpec == Init /\ [][AudioNext]_vars

\* Two jobs, each with one message, consumed by the pool processes, next to
\* the poll worker.
WorkerNext ==
  \/ \E j \in PairJobIds, a \in AudioIds : CreateAndDelay(j, STEM_SEPARATION, a)
  \/ \E w \in Workers, t \in DOMAIN tasks : Reserve(w, t)
  \/ \E w \in Workers, t \in DOMAIN tasks : Execute(w, t, "none", TRUE)
  \/ \E w \in Workers, t \in DOMAIN tasks, r \in {x \in PipelineRuns : x.at # "save"} :
       Complete(w, t, r, 0, TRUE, FALSE)
  \/ \E w \in Workers, t \in DOMAIN tasks : Lost(w, t, {})
  \/ \E j \in PairJobIds : PollFetch(j)
  \/ PollClaim(0)
  \/ \E h \in BOOLEAN : PollFail(h, TRUE)

WorkerSpec == Init /\ [][WorkerNext]_vars

\* The poll worker alone (no push worker consumes the queue), over two jobs
\* created through the endpoint's calls.
PollNext ==
  \/ \E j \in PairJobIds, a \in AudioIds : CreateAndDelay(j, STEM_SEPARATION, a)
  \/ \E j \in PairJobIds : PollFetch(j)
  \/ \E n \in 0..2 : PollClaim(n)
  \/ \E h \in BOOLEAN, d \in BOOLEAN : PollFail(h, d)

\* poll_and_process keeps running (its loop catches every Exception and
\* polls again after the sleep), and a database call that can succeed
\* infinitely often does succeed eventually: no outage lasts forever.
PollFairSpec ==
  /\ Init /\ [][PollNext]_vars
  /\ WF_vars(\E j \in PairJobIds : PollFetch(j))
  /\ WF_vars(\E n \in 0..2 : PollClaim(n))
  /\ WF_vars(\E h \in BOOLEAN, d \in BOOLEAN : PollFail(h, d))
  /\ SF_vars(PollClaim(0))
  /\ SF_vars(\E h \in BOOLEAN : PollFail(h, TRUE))

\* Two jobs, each with one message, executed by push workers whose
\* executions may exceed the hard time limit, next to the poll worker.
TimeLimitNext ==
  \/ \E j \in PairJobIds, a \in AudioIds : CreateAndDelay(j, STEM_SEPARATION, a)
  \/ \E t \in DOMAIN tasks : Start(t, "none", TRUE)
  \/ \E t \in DOMAIN tasks, r \in PipelineRuns : Finish(t, r, 0, TRUE, FALSE)
  \/ \E t \in DOMAIN tasks, n \in 0..Len(StemOrder) : TimeLimit(t, SavedBefore(n))
  \/ \E j \in PairJobIds : PollFetch(j)
  \/ PollClaim(0)
  \/ \E h \in BOOLEAN : PollFail(h, TRUE)

TimeLimitSpec == Init /\ [][TimeLimitNext]_vars

\* The ids process_audio_job is called with: the id of the job created, the
\* id of a job that has no row, and a string that is no UUID.
CalledIds == JobIds \cup {"j2", MalformedJobId}

\* process_audio_job called with ids of every kind next to the creation
\* and the execution of one job, the database failing or not.
LookupNext ==
  \/ \E c \in JobConfigs : JobServiceCreateJob(c[1], c[2])
  \/ \E id \in CalledIds : Enqueue(id)
  \/ \E t \in DOMAIN tasks, f \in {"none", "db"}, u \in BOOLEAN : Start(t, f, u)
  \/ \E t \in DOMAIN tasks, r \in PipelineRuns : Finish(t, r, 0, TRUE, FALSE)

LookupSpec == Init /\ [][LookupNext]_vars

\* The path operations of LocalStorage called in any order, next to the
\* operations that write files into the directories they return.
StorageNext ==
  \/ \E j \in StorageJobIds : JobPathCall(j)
  \/ \E a \in StorageAudioIds : AudioPathCall(a)
  \/ \E a \in StorageAudioIds, f \in StoredNames : GetAudioFilePathCall(a, f)
  \/ \E a \in StorageAudioIds, f \in StoredNames, c \in Contents : save_audio_file(a, f, c)
  \/ \E j \in StorageJobIds, f \in StemNames, c \in Contents : SaveStem(j, f, c)

StorageSpec == Init /\ [][StorageNext]_vars

\* A client polling GET /jobs/{job_id} while the job is created, enqueued
\* and executed by a push worker.
ClientNext ==
  \/ \E c \in JobConfigs : JobServiceCreateJob(c[1], c[2])
  \/ \E j \in JobIds : Delay(j)
  \/ \E t \in TaskIds : Start(t, "none", TRUE)
  \/ \E t \in TaskIds, r \in PipelineRuns : Finish(t, r, 0, TRUE, FALSE)
  \/ \E j \in JobIds : get_job(j)

ClientSpec == Init /\ [][ClientNext]_vars

(* ------------------------------ properties ---------------------------- *)

\* The status changes the state machine of a job allows.
AllowedTransitions ==
  {<<QUEUED, RUNNING>>, <<RUNNING, SUCCEEDED>>, <<RUNNING, FAILED>>, <<QUEUED, FAILED>>}

\* C1: every change of a job's stored status is one of queued->running,
\* running->succeeded, running->failed, queued->failed; in particular no
\* step changes a status that is succeeded or failed.
C1_OnlyAllowedTransitions ==
  [][\A j \in DOMAIN jobs :
       jobs'[j].status # jobs[j].status
         => <<jobs[j].status, jobs'[j].status>> \in AllowedTransitions]_vars

\* C2: in every reachable state a job's output is set if and only if its
\* status is succeeded.
C2_OutputIffSucceeded ==
  \A j \in DOMAIN jobs : (jobs[j].output # None) <=> (jobs[j].status = SUCCEEDED)

\* C3: every job whose status is failed has a non-empty error_message.
C3_FailedHasMessage ==
  \A j \in DOMAIN jobs :
    jobs[j].status = FAILED
      => jobs[j].error_message # None /\ jobs[j].error_message[1] # ""

\* C4: a job's error_message is set only while its status is failed.
C4_MessageOnlyWhileFailed ==
  \A j \in DOMAIN jobs : jobs[j].error_message # None => jobs[j].status = FAILED

\* C5: every succeeded job has progress 1.0 and a non-empty output that is
\* the manifest the pipeline router collects from the job's stems
\* directory, and every path of the output names a file of that directory.
C5_SucceededJob ==
  \A j \in DOMAIN jobs :
    jobs[j].status = SUCCEEDED
      => /\ jobs[j].progress = Some(1)
         /\ jobs[j].output # None
         /\ DOMAIN jobs[j].output[1] # {}
         /\ jobs[j].output[1] = CollectOutput(j, stems[j])
         /\ \A k \in DOMAIN jobs[j].output[1] :
              \E f \in stems[j] : jobs[j].output[1][k] = RelativePath(j, f)

\* A stem separation job has succeeded through the push task.
C5_Witness ==
  \E j \in DOMAIN jobs :
    /\ jobs[j].status = SUCCEEDED
    /\ jobs[j].type = STEM_SEPARATION
    /\ \E t \in DOMAIN tasks : tasks[t].job = j /\ tasks[t].pipe = "ok"

\* The job types the create_job endpoint is documented to accept.
DocumentedTypes == {STEM_SEPARATION, MELODY_EXTRACTION, CHORD_ANALYSIS}

\* A create_job request for an existing audio id and a documented type has
\* been answered.
ValidRequestAnswered ==
  /\ http.code # 0
  /\ http.audio \in DOMAIN audios
  /\ http.type \in DocumentedTypes

\* C6: every create_job call with an existing audio id and a valid job type
\* returns and persists a job with status queued, output absent,
\* error_message absent and progress 0 or absent.
C6_CreateReturnsQueuedJob ==
  ValidRequestAnswered
    => /\ http.code = 201
       /\ http.job # None /\ http.job[1] \in DOMAIN jobs
       /\ http.body # None
       /\ http.body[1].status = QUEUED
       /\ http.body[1].output = None
       /\ http.body[1].error_message = None
       /\ http.body[1].progress \in {None, Some(0)}

\* C7: when enqueueing raises at creation time, create_job still returns
\* the job record and the job row is persisted with status queued.
C7_EnqueueFailureKeepsJob ==
  (ValidRequestAnswered /\ ~http.broker)
    => /\ http.code = 201
       /\ http.body # None /\ http.body[1].status = QUEUED
       /\ http.job # None /\ http.job[1] \in DOMAIN jobs

\* The manifest keys the engine's stem set gives, and a storage-relative
\* path inside the stems directory of job j ending in the configured
\* extension.
StemKeys == {<<s>> : s \in StemSet}
IsStemPath(j, path) ==
  /\ Len(path) = 4
  /\ SubSeq(path, 1, 3) = <<"jobs", j, "stems">>
  /\ path[4][Len(path[4])] = DEFAULT_STEM_FORMAT

\* C8: a stem_separation request for an audio file on disk, the broker
\* available, creates a job that can reach succeeded, and when it has, its
\* output keys are the engine's stem set and each value is a
\* storage-relative path ending in the configured extension.  (The finite
\* form of the claim: a request that was answered without a job can never
\* lead to a succeeded job.)
C8_StemJobThroughEndpoint ==
  (http.code # 0 /\ http.type = STEM_SEPARATION /\ http.audio \in disk /\ http.broker)
    => /\ http.code = 201
       /\ http.job # None /\ http.job[1] \in DOMAIN jobs
       /\ LET j == http.job[1]
          IN  jobs[j].status = SUCCEEDED
                => /\ jobs[j].output # None
                   /\ DOMAIN jobs[j].output[1] = StemKeys
                   /\ \A k \in StemKeys : IsStemPath(j, jobs[j].output[1][k])

\* C9: a first attempt whose pipeline run hit a transient error
\* (ConnectionError, TimeoutError, IOError) is re-attempted: its task never
\* ends acknowledged, without a retry, on that attempt.
C9_TransientIsReattempted ==
  \A t \in DOMAIN tasks :
    ~(tasks[t].pc = "returned" /\ tasks[t].pipe = "transient" /\ tasks[t].retries = 0)

\* C10: when a task runs out of retries (its first execution and MaxRetries
\* retries all ended in a transient error), the job's stored status is
\* failed at that moment.
C10_ExhaustedMeansFailed ==
  [][\A t \in DOMAIN tasks :
       (tasks[t].pc # "exhausted" /\ tasks'[t].pc = "exhausted")
         => jobs'[tasks[t].job].status = FAILED]_vars

\* The messages process_audio_job records for a processing crash: str(e) of
\* the exceptions the stem pipeline raises.
CrashMessages ==
  {e.msg : e \in EngineExcs}
  \cup {SeparationError(e).msg : e \in WrappedExcs}
  \cup {SaveError(e).msg : e \in WrappedExcs}

UnimplementedTypes == {MELODY_EXTRACTION, CHORD_ANALYSIS}

\* C11: the attempt of a melody_extraction or chord_analysis job that
\* reaches its processor ends with the job failed, the error_message being
\* the processor's not-implemented message, which differs from every
\* message recorded for a processing crash; the attempt is not retried
\* (self.request.retries does not grow) and such a job never succeeds.
C11_NotImplementedFails ==
  /\ [][\A t \in DOMAIN tasks :
         LET j == tasks[t].job
         IN  (tasks[t].pc = "run" /\ jobs[j].type \in UnimplementedTypes)
               => /\ tasks'[t].retries = tasks[t].retries
                  /\ tasks'[t].pc \in {"run", "returned", "raised", "queued"}
                  /\ (tasks'[t].pc = "returned" /\ tasks'[t].pipe = "not_implemented")
                       => /\ jobs'[j].status = FAILED
                          /\ jobs'[j].error_message = Some(NotImplemented(jobs[j].type).msg)
                          /\ NotImplemented(jobs[j].type).msg \notin CrashMessages]_vars
  /\ [](\A j \in DOMAIN jobs :
          jobs[j].type \in UnimplementedTypes => jobs[j].status # SUCCEEDED)

\* A melody or chord job is failed with the not-implemented message, its
\* task acknowledged without a retry.
C11_Witness ==
  \E t \in DOMAIN tasks :
    LET j == tasks[t].job
    IN  /\ jobs[j].type \in UnimplementedTypes
        /\ tasks[t].pc = "returned" /\ tasks[t].pipe = "not_implemented"
        /\ tasks[t].retries = 0
        /\ jobs[j].status = FAILED
        /\ jobs[j].error_message = Some(NotImplemented(jobs[j].type).msg)

\* The audio a job references has no Audio row or no file on disk.
AudioUnavailable(j) ==
  /\ jobs[j].input \in AudioIds
  /\ jobs[j].input \notin DOMAIN audios \/ jobs[j].input \notin disk

\* C12: a job whose audio id has no Audio row, or whose audio file is
\* missing on disk, is never running, and its only status change is
\* queued -> failed.
C12_MissingAudioNeverRuns ==
  /\ [](\A j \in DOMAIN jobs : AudioUnavailable(j) => jobs[j].status # RUNNING)
  /\ [][\A j \in DOMAIN jobs :
         (AudioUnavailable(j) /\ jobs'[j].status # jobs[j].status)
           => (jobs[j].status = QUEUED /\ jobs'[j].status = FAILED)]_vars

\* C13: a create_job request naming an unknown audio id is answered 404
\* and one naming a job type outside the valid set is answered 400; either
\* way the response carries no job (no row was created, nothing enqueued).
C13_InvalidRequestRejected ==
  (http.code # 0 /\ (http.audio \notin DOMAIN audios \/ http.type \notin DocumentedTypes))
    => /\ http.code = (IF http.audio \notin DOMAIN audios THEN 404 ELSE 400)
       /\ http.job = None
       /\ http.body = None

\* The paths of a job's stored output.
OutputPaths(j) ==
  IF jobs[j].output = None THEN {}
  ELSE {jobs[j].output[1][k] : k \in DOMAIN jobs[j].output[1]}

\* C14: of two jobs referencing the same audio and processed concurrently,
\* each one whose pipeline ran to its end is succeeded with the manifest of
\* its own stems directory; the manifests of two jobs share no path, every
\* path lying under the job's own jobs/{job_id}/stems; and a step of one
\* job's worker changes neither the row nor the directory of the other.
C14_ConcurrentJobsIndependent ==
  /\ [](\A t \in DOMAIN tasks :
          (tasks[t].pc = "returned" /\ tasks[t].pipe = "ok")
            => /\ jobs[tasks[t].job].status = SUCCEEDED
               /\ jobs[tasks[t].job].output = Some(CollectOutput(tasks[t].job, stems[tasks[t].job])))
  /\ [](\A j \in DOMAIN jobs :
          /\ \A path \in OutputPaths(j) : SubSeq(path, 1, 3) = <<"jobs", j, "stems">>
          /\ \A k \in DOMAIN jobs \ {j} : OutputPaths(j) \cap OutputPaths(k) = {})
  /\ [][\A j \in DOMAIN jobs :
         (jobs'[j] # jobs[j] \/ stems'[j] # stems[j])
           => \A k \in DOMAIN jobs \ {j} : jobs'[k] = jobs[k] /\ stems'[k] = stems[k]]_vars

\* Both jobs reference the same audio and have succeeded, each with a
\* non-empty manifest.
C14_Witness ==
  /\ DOMAIN jobs = PairJobIds
  /\ \A j \in PairJobIds :
       /\ jobs[j].status = SUCCEEDED
       /\ jobs[j].input = jobs["j1"].input
       /\ OutputPaths(j) # {}

\* The table after update_job_status(c.job, c.args...) applied as a whole.
Applied(tbl, c) ==
  update_job_status(tbl, c.job, c.args.status, c.args.error_message,
                    c.args.progress, c.args.output)

\* C15: when the update_job_status calls of two sessions on the same job
\* have both returned, the table equals the two calls applied one after
\* the other, in one order or the other, to the table the first of them
\* read.
C15_UpdatesSerializable ==
  (/\ DOMAIN txn.calls = Sessions
   /\ \A s \in Sessions : txn.calls[s].done /\ txn.calls[s].loaded # None)
    => jobs \in {Applied(Applied(txn.base, txn.calls["s1"]), txn.calls["s2"]),
                 Applied(Applied(txn.base, txn.calls["s2"]), txn.calls["s1"])}

\* Session u made the same call as session s, after s had returned: u
\* loaded the row s's call returned.
SameCallTwice(s, u) ==
  /\ s # u
  /\ {s, u} \subseteq DOMAIN txn.calls
  /\ txn.calls[s].done /\ txn.calls[u].done
  /\ txn.calls[s].loaded # None
  /\ txn.calls[u].args = txn.calls[s].args
  /\ txn.calls[u].loaded = txn.calls[s].result

\* C16: update_job_status is idempotent: a second call with the same
\* arguments leaves the row the first call left, for every row and every
\* argument tuple.
C16_UpdateIdempotent ==
  /\ \A s, u \in Sessions :
       SameCallTwice(s, u)
         => txn.calls[u].result = txn.calls[s].result /\ jobs[txn.calls[u].job] = txn.calls[s].result[1]
  /\ \A j \in DOMAIN jobs, a \in UpdateCalls :
       LET c == [job |-> j, args |-> a]
       IN  Applied(Applied(jobs, c), c) = Applied(jobs, c)

\* The same call was made twice in a row and the first one changed the row.
C16_Witness ==
  \E s, u \in Sessions :
    /\ SameCallTwice(s, u)
    /\ txn.calls[s].result # txn.calls[s].loaded
    /\ Truthy(txn.calls[s].args.error_message)

\* Session s commits in this step.
Commits(s) ==
  /\ s \in DOMAIN txn.calls /\ ~txn.calls[s].done
  /\ s \in DOMAIN txn'.calls /\ txn'.calls[s].done

\* C17: an update_job_status call changes only the status and the optional
\* fields that were supplied (a truthy error_message, a progress, an
\* output); it never changes type, input or params, creates no row, and
\* for an unknown id returns None.
C17_UpdateFrame ==
  /\ [][\A s \in Sessions :
         Commits(s)
           => LET c == txn.calls[s]
                  old == jobs[c.job]
                  new == jobs'[c.job]
              IN  /\ DOMAIN jobs' = DOMAIN jobs
                  /\ \A k \in DOMAIN jobs \ {c.job} : jobs'[k] = jobs[k]
                  /\ new.type = old.type /\ new.input = old.input /\ new.params = old.params
                  /\ new.status \in {old.status, c.args.status}
                  /\ ~Truthy(c.args.error_message) => new.error_message = old.error_message
                  /\ c.args.progress = None => new.progress = old.progress
                  /\ c.args.output = None => new.output = old.output]_vars
  /\ [][\A s \in Sessions :
         (s \notin DOMAIN txn.calls /\ s \in DOMAIN txn'.calls)
           => /\ jobs' = jobs
              /\ txn'.calls[s].job \notin DOMAIN jobs
                   => txn'.calls[s].done /\ txn'.calls[s].result = None]_vars

\* A call that supplied no output has changed the status of a row and left
\* its stored output in place.
C17_Witness ==
  \E s \in DOMAIN txn.calls :
    LET c == txn.calls[s]
    IN  /\ c.done /\ c.loaded # None
        /\ c.args.output = None
        /\ c.loaded[1].output # None
        /\ c.result[1].status # c.loaded[1].status
        /\ c.result[1].output = c.loaded[1].output

\* C18: within one execution attempt the progress values written are 0.0,
\* when the attempt marks the job running, and then at most 1.0, when it
\* marks the job succeeded: every written value lies in [0.0, 1.0] and the
\* sequence is non-decreasing.
C18_ProgressOfAttempt ==
  /\ [](\A j \in DOMAIN jobs :
          jobs[j].progress # None /\ jobs[j].progress[1] \in 0..1)
  /\ [][\A t \in DOMAIN tasks :
         LET j == tasks[t].job
         IN  /\ (tasks[t].pc = "queued" /\ tasks'[t].pc = "run")
                  => jobs'[j].progress = Some(0)
             /\ (tasks[t].pc = "run" /\ tasks'[t] # tasks[t])
                  => /\ jobs'[j].progress \in {jobs[j].progress, Some(1)}
                     /\ jobs'[j].progress # jobs[j].progress => jobs'[j].status = SUCCEEDED
                     /\ (jobs'[j].status = SUCCEEDED /\ jobs'[j] # jobs[j])
                          => jobs'[j].progress = Some(1)]_vars

\* An attempt has marked its job running and then succeeded, the stored
\* progress being 1.0.
C18_Witness ==
  \E t \in DOMAIN tasks :
    /\ tasks[t].pc = "returned" /\ tasks[t].pipe = "ok"
    /\ jobs[tasks[t].job].progress = Some(1)

\* The messages process_audio_job can record for a stem separation job
\* whose audio has a row and a file: those of a processing crash, of a
\* database error, and of the outer handler.
PushFailureMessages ==
  CrashMessages \cup {DbError.msg}
  \cup {"Unexpected error processing job: " \o m : m \in {DbError.msg, "Permission denied"}}

\* C19: a valid stem separation job that only the poll worker processes
\* (no push message exists) is brought to an outcome push dispatch could
\* have produced: when it is failed, its error_message is one
\* process_audio_job records for such a job.
C19_PollMatchesPush ==
  \A j \in DOMAIN jobs :
    (/\ tasks = <<>>
     /\ jobs[j].type = STEM_SEPARATION
     /\ jobs[j].input \in DOMAIN audios /\ jobs[j].input \in disk
     /\ jobs[j].status = FAILED
     /\ jobs[j].error_message # None)
      => jobs[j].error_message[1] \in PushFailureMessages

\* C20: get_audio_path for an audio id that has no Audio row returns None:
\* the request that resolves such an id is answered 404 (nothing is
\* raised), and no step adds an Audio row.
C20_ResolveUnknownAudio ==
  /\ [](\A a \in AudioIds : a \notin DOMAIN audios => get_audio_path(audios, a) = None)
  /\ []((http.code # 0 /\ http.audio \notin DOMAIN audios) => http.code = 404)
  /\ [][audios' = audios]_vars

\* A create_job request resolved an audio id without a row and was
\* answered 404.
C20_Witness ==
  /\ http.code = 404
  /\ http.audio \notin DOMAIN audios
  /\ get_audio_path(audios, http.audio) = None

\* C21: every Audio row keeps its id, filename and file_path and is never
\* deleted, and its file stays as it is on disk, whatever step is taken; a
\* step that creates or processes a job changes no Audio row and no audio
\* file at all.
C21_AudioImmutable ==
  /\ [][\A a \in DOMAIN audios :
         /\ a \in DOMAIN audios'
         /\ AudioRow(audios', a) = AudioRow(audios, a)
         /\ (a \in disk') = (a \in disk)]_vars
  /\ [][(jobs' # jobs \/ tasks' # tasks \/ stems' # stems)
          => (audios' = audios /\ disk' = disk)]_vars

\* Two audios have been uploaded and a job referencing one of them has
\* succeeded, the row and the file of its audio in place.
C21_Witness ==
  /\ DOMAIN audios = UploadIds
  /\ \E j \in DOMAIN jobs :
       /\ jobs[j].status = SUCCEEDED
       /\ jobs[j].input \in DOMAIN audios
       /\ jobs[j].input \in disk

Acked == {"returned", "raised", "exhausted"}

C24_MissingAudioFailsWithoutRetry ==
  [][\A t \in DOMAIN tasks :
       LET j == tasks[t].job
       IN  (/\ tasks[t].pc = "queued"
            /\ j \in DOMAIN jobs
            /\ AudioUnavailable(j)
            /\ tasks'[t] # tasks[t])
             => /\ tasks'[t].pc # "run"
                /\ tasks'[t].pipe = "none"
                /\ stems' = stems
                /\ tasks'[t].pc = "returned"
                     => /\ tasks'[t].retries = tasks[t].retries
                        /\ jobs'[j].status = FAILED
                        /\ jobs'[j].error_message =
                             Some(IF jobs[j].input \notin DOMAIN audios
                                  THEN AudioNotFound(jobs[j].input)
                                  ELSE AudioFileNotFound(<<"audio", jobs[j].input,
                                                           audios[jobs[j].input]>>))]_vars

\* A first execution returned for a job whose audio has a row and no file:
\* the job is failed with the message naming the file.
C24_Witness ==
  \E t \in DOMAIN tasks :
    LET j == tasks[t].job
    IN  /\ tasks[t].pc = "returned" /\ tasks[t].retries = 0 /\ tasks[t].pipe = "none"
        /\ jobs[j].input \in DOMAIN audios
        /\ jobs[j].input \notin disk
        /\ jobs[j].status = FAILED
        /\ jobs[j].error_message = Some("Audio file not found: audio/a1/my.song.mp3")

\* The text of the error process_stem_separation raises when the engine
\* fails with e (at "separate") or a save fails with e (at "save").
RaisedText(at, e) == IF at = "separate" THEN SeparationError(e).msg ELSE SaveError(e).msg

\* C25: when the pipeline router raised in an execution because the engine
\* failed or a stem save failed, the task returns with the job failed and
\* the error_message equal to the text of the raised error; no execution of
\* a stem separation job that has reached the pipeline ends in a retry.
C25_PipelineErrorRecorded ==
  [][\A t \in DOMAIN tasks :
       LET j == tasks[t].job
       IN  (tasks[t].pc = "run" /\ jobs[j].type = STEM_SEPARATION)
             => /\ tasks'[t].retries = tasks[t].retries
                /\ (tasks'[t].pc = "returned" /\ tasks'[t].at \in {"separate", "save"})
                     => /\ jobs'[j].status = FAILED
                        /\ \E e \in WrappedExcs :
                             /\ e.kind = tasks'[t].pipe
                             /\ jobs'[j].error_message = Some(RaisedText(tasks'[t].at, e))]_vars

\* The engine failed in a first execution: the task returned, the job is
\* failed with the text of the error the router raised.
C25_Witness ==
  \E t \in DOMAIN tasks :
    LET j == tasks[t].job
    IN  /\ tasks[t].pc = "returned" /\ tasks[t].at = "separate" /\ tasks[t].retries = 0
        /\ jobs[j].status = FAILED
        /\ jobs[j].error_message = Some("Failed to separate audio: ")

\* C26: an execution in which a Job Store call raised never returns
\* normally: no execution of a melody, chord or unknown-type job (whose
\* only Job Store call after the update to running records a failure)
\* returns with the text of the Job Store's error newly stored as the job's
\* error_message; and an execution that ends by raising leaves the job
\* failed (the update through the fresh session) or, that update being
\* rejected too, leaves the row as it was.
C26_JobStoreErrorReraised ==
  [][\A t \in DOMAIN tasks :
       LET j == tasks[t].job
       IN  /\ (/\ tasks[t].pc = "run"
               /\ jobs[j].type # STEM_SEPARATION
               /\ tasks'[t].pc = "returned"
               /\ jobs'[j].error_message # jobs[j].error_message)
                => jobs'[j].error_message # Some(DbError.msg)
           /\ (/\ tasks[t].pc \in {"queued", "run"}
               /\ tasks'[t].pc \in {"raised", "exhausted"} \/ tasks'[t].retries > tasks[t].retries)
                => (jobs'[j].status = FAILED \/ jobs' = jobs)]_vars

\* Task t's message is put (back) in the queue by this step.
Requeued(t) == tasks[t].pc # "queued" /\ tasks'[t].pc = "queued"

\* This step puts task t's message back as a retry after an exception of a
\* retried kind.
RetriedAfterTransient(t) ==
  /\ tasks[t].retries < MaxRetries
  /\ tasks'[t].retries = tasks[t].retries + 1
  /\ tasks'[t].exc \in autoretry_for

\* C27: a message is put back for another execution only as a retry after
\* an execution that raised ConnectionError, TimeoutError or IOError, and
\* at most MaxRetries times, so that one enqueue leads to at most
\* MaxRetries + 1 executions; an execution that returns or raises another
\* error is not retried.
C27_RetryOnlyOnTransient ==
  /\ [](\A t \in DOMAIN tasks : tasks[t].retries <= MaxRetries)
  /\ [][\A t \in DOMAIN tasks :
         /\ Requeued(t) => RetriedAfterTransient(t)
         /\ (tasks[t].pc \notin Acked /\ tasks'[t].pc \in {"returned", "raised"})
              => tasks'[t].retries = tasks[t].retries
         /\ (tasks[t].pc \notin Acked /\ tasks'[t].pc = "raised")
              => tasks'[t].exc \notin autoretry_for]_vars

\* C27 amended: apart from the redelivery of an unacknowledged message
\* whose worker was lost (the message returns to the queue unchanged, its
\* retry count not growing), a message is put back only as a retry after an
\* execution that raised ConnectionError, TimeoutError or IOError, and at
\* most MaxRetries times; an execution that returns or raises another error
\* is not retried, and a task ends exhausted only after MaxRetries retries.
C27_RetryOrRedelivery ==
  /\ [](\A t \in DOMAIN tasks : tasks[t].retries <= MaxRetries)
  /\ [][\A t \in DOMAIN tasks :
         /\ Requeued(t)
              => \/ RetriedAfterTransient(t)
                 \/ tasks'[t] = [tasks[t] EXCEPT !.pc = "queued"]
         /\ (tasks[t].pc \notin Acked /\ tasks'[t].pc \in {"returned", "raised"})
              => tasks'[t].retries = tasks[t].retries
         /\ (tasks[t].pc \notin Acked /\ tasks'[t].pc = "raised")
              => tasks'[t].exc \notin autoretry_for
         /\ (tasks[t].pc \notin Acked /\ tasks'[t].pc = "exhausted")
              => /\ tasks'[t].retries = MaxRetries
                 /\ tasks'[t].exc \in autoretry_for]_vars

\* A task has been retried MaxRetries times after transient errors and its
\* last execution raised one again.
C27_Witness ==
  \E t \in DOMAIN tasks :
    /\ tasks[t].pc = "exhausted"
    /\ tasks[t].retries = MaxRetries
    /\ tasks[t].exc \in autoretry_for

\* The workers that are inside the processing routine of job j: the push
\* executions past the update to running, and the poll worker inside
\* process_job.
Processing(j) ==
  Cardinality({t \in DOMAIN tasks : tasks[t].job = j /\ tasks[t].pc = "run"})
    + (IF poll.pc = "proc" /\ poll.job = j THEN 1 ELSE 0)

\* Job j has been claimed: a worker has marked it running (it is running,
\* or has succeeded since).
Claimed(j) == jobs[j].status \in {RUNNING, SUCCEEDED}

\* C28: no worker begins the processing routine of a job that has been
\* claimed (the push task marking it running and going on to the pipeline,
\* the poll worker's process_job marking it running), and at no time are
\* two workers inside the processing routine of the same job.
C28_ClaimedOnce ==
  /\ [][\A t \in DOMAIN tasks :
         (tasks[t].pc = "queued" /\ tasks'[t].pc = "run") => ~Claimed(tasks[t].job)]_vars
  /\ [][(poll.pc = "fetched" /\ poll'.pc = "proc") => ~Claimed(poll.job)]_vars
  /\ [](\A j \in DOMAIN jobs : Processing(j) <= 1)

\* The stored status of job j, "none" while it has no row.
StatusOf(j) == IF j \in DOMAIN jobs THEN jobs[j].status ELSE "none"

\* C29: a failing job does not end poll_and_process (after process_job has
\* raised the worker is back at polling), and every job that is queued is
\* eventually brought to a terminal status.
C29_PollReachesEveryJob ==
  /\ [][poll.pc = "proc" => poll'.pc \in {"proc", "idle"}]_vars
  /\ \A j \in PairJobIds :
       (StatusOf(j) = QUEUED) ~> (StatusOf(j) \in {SUCCEEDED, FAILED})

\* C30: the manifest process_stem_separation returns, stored as the output
\* of every succeeded job, has exactly the engine's stem names as keys, and
\* its value for stem s is jobs/{job_id}/stems/{track}.{s}.{ext}, whatever
\* the input file name and whatever files an earlier attempt left behind.
C30_ManifestKeysAreStems ==
  \A j \in DOMAIN jobs :
    jobs[j].status = SUCCEEDED
      => /\ jobs[j].output # None
         /\ DOMAIN jobs[j].output[1] = StemKeys
         /\ \A s \in StemSet :
              jobs[j].output[1][<<s>>] =
                <<"jobs", j, "stems", TrackOf(audios[jobs[j].input]) \o <<s, DEFAULT_STEM_FORMAT>>>>

\* C31: when the save of a stem fails in process_stem_separation, the
\* execution returns with the job failed and the error_message the text of
\* the save error; the stems directory gains exactly the stems saved before
\* the failing one (no later stem, nothing already there removed), the
\* job's stored output is not written, and the task is not retried.
C31_SaveFailureAborts ==
  [][\A t \in DOMAIN tasks :
       LET j == tasks[t].job
       IN  (tasks[t].pc = "run" /\ tasks'[t].pc = "returned" /\ tasks'[t].at = "save")
             => /\ jobs'[j].status = FAILED
                /\ \E e \in WrappedExcs : jobs'[j].error_message = Some(SaveError(e).msg)
                /\ jobs'[j].output = jobs[j].output
                /\ \E n \in 0..(Len(StemOrder) - 1) :
                     stems'[j] = stems[j] \cup SavedFiles(audios[jobs[j].input], SavedBefore(n))
                /\ tasks'[t].retries = tasks[t].retries]_vars

\* The save of the second stem failed in a first execution: the first stem
\* is on disk alone, the job is failed without an output.
C31_Witness ==
  \E t \in DOMAIN tasks :
    LET j == tasks[t].job
    IN  /\ tasks[t].pc = "returned" /\ tasks[t].at = "save" /\ tasks[t].retries = 0
        /\ jobs[j].status = FAILED
        /\ jobs[j].output = None
        /\ Cardinality(stems[j]) = 1

\* No message of job j is in the queue or being executed and the poll
\* worker holds no job: nothing is left that would act on j.
Quiet(j) ==
  /\ poll = Idle
  /\ \A t \in DOMAIN tasks :
       tasks[t].job = j => tasks[t].pc \notin {"queued", "run"}

\* C32: a job whose execution was terminated at the hard time limit does
\* not remain running: once the task has ended and nothing is left to act
\* on the job, its stored status is not running.
C32_TimedOutJobNotRunning ==
  \A t \in DOMAIN tasks :
    (tasks[t].pc = "timeout" /\ Quiet(tasks[t].job))
      => jobs[tasks[t].job].status # RUNNING

\* C33: when an execution of process_audio_job returns a result for an
\* existing job, the row as that execution leaves it agrees with the
\* result: status succeeded with the returned output, or status failed with
\* the returned error as error_message.
C33_RowAgreesWithResult ==
  [][\A t \in DOMAIN tasks :
       LET j == tasks[t].job
       IN  (tasks[t].pc # "returned" /\ tasks'[t].pc = "returned" /\ j \in DOMAIN jobs)
             => LET res == tasks'[t].res[1]
                IN  /\ tasks'[t].res # None
                    /\ res.status = "succeeded"
                         => jobs'[j].status = SUCCEEDED /\ jobs'[j].output = res.output
                    /\ res.status = "failed"
                         => jobs'[j].status = FAILED /\ jobs'[j].error_message = res.error]_vars

\* The identifying columns of a Job row, which no worker writes.
Identity(row) == [type |-> row.type, input |-> row.input, params |-> row.params]

\* C34: no step deletes a Job row or changes the type, input or params of
\* one; a row appears only through create_job, as a queued row, in a step
\* that is no worker's (no message, no poll position and no stems directory
\* changes with it).
C34_WorkersKeepJobIdentity ==
  [][/\ \A j \in DOMAIN jobs :
          j \in DOMAIN jobs' /\ Identity(jobs'[j]) = Identity(jobs[j])
     /\ \A j \in DOMAIN jobs' \ DOMAIN jobs :
          /\ jobs'[j] = NewJob(jobs'[j].type, jobs'[j].input, QUEUED)
          /\ tasks' = tasks /\ poll' = poll /\ stems' = stems]_vars

\* A job has been through a retry and a later execution that succeeded,
\* and carries the type, input and params it was created with.
C34_Witness ==
  \E t \in DOMAIN tasks :
    LET j == tasks[t].job
    IN  /\ tasks[t].pc = "returned" /\ tasks[t].retries > 0
        /\ jobs[j].status = SUCCEEDED
        /\ Identity(jobs[j]) = Identity(NewJob(STEM_SEPARATION, "a1", QUEUED))
        /\ DOMAIN jobs = JobIds

\* C35: the execution of a job whose stored type is none of
\* stem_separation, melody_extraction, chord_analysis, once it has reached
\* the routing block, invokes no processor (no stem is written, no pipeline
\* outcome exists) and is not retried; when it returns, the job is failed
\* with the message 'Unknown job type: <type>' (unless the text recorded is
\* the Job Store's own error, the case of C26); such a job never succeeds.
C35_UnknownTypeFails ==
  /\ [][\A t \in DOMAIN tasks :
         LET j == tasks[t].job
         IN  (tasks[t].pc = "run" /\ jobs[j].type \notin DocumentedTypes)
               => /\ tasks'[t].retries = tasks[t].retries
                  /\ tasks'[t].pipe = "none"
                  /\ stems' = stems
                  /\ (tasks'[t].pc = "returned" /\ jobs'[j].error_message # Some(DbError.msg))
                       => /\ jobs'[j].status = FAILED
                          /\ jobs'[j].error_message = Some("Unknown job type: bogus")]_vars
  /\ [](\A j \in DOMAIN jobs :
          jobs[j].type \notin DocumentedTypes => jobs[j].status # SUCCEEDED)

\* A first execution has returned for a job of an unknown type: the job is
\* failed with the message naming the type, nothing was retried or written.
C35_Witness ==
  \E t \in DOMAIN tasks :
    LET j == tasks[t].job
    IN  /\ jobs[j].type = UNKNOWN_TYPE
        /\ tasks[t].pc = "returned" /\ tasks[t].retries = 0 /\ tasks[t].pipe = "none"
        /\ jobs[j].status = FAILED
        /\ jobs[j].error_message = Some("Unknown job type: bogus")
        /\ stems[j] = {}

\* Task t is called with an id that is malformed or has no Job row.
NoSuchJob(t) == ~IsUuid(tasks[t].job) \/ tasks[t].job \notin DOMAIN jobs

\* C36: an execution of process_audio_job for a malformed job id, or for an
\* id without a Job row, changes no Job row (and creates none), runs no
\* pipeline (no stem is written, the task never enters the routing block)
\* and schedules no retry; when it returns, which for a malformed id it
\* always does, the result is failed with the message naming the id.
C36_NoSuchJobReturnsFailed ==
  [][\A t \in DOMAIN tasks :
       (tasks[t].pc = "queued" /\ NoSuchJob(t) /\ tasks'[t] # tasks[t])
         => /\ jobs' = jobs
            /\ stems' = stems
            /\ tasks'[t].pc \in {"returned", "raised"}
            /\ tasks'[t].retries = tasks[t].retries
            /\ tasks'[t].pipe = "none"
            /\ tasks[t].job = MalformedJobId
                 => /\ tasks'[t].pc = "returned"
                    /\ tasks'[t].res =
                         Some(FailedResult("Invalid job_id format: not-a-job-uuid"))
            /\ (tasks[t].job # MalformedJobId /\ tasks'[t].pc = "returned")
                 => tasks'[t].res =
                      Some(FailedResult("Job " \o tasks[t].job \o " not found"))]_vars

\* Both a malformed id and an id without a row have been answered with a
\* failed result, next to a job that exists and was not touched by them.
C36_Witness ==
  /\ DOMAIN jobs = JobIds
  /\ jobs["j1"].status = QUEUED
  /\ \E t \in DOMAIN tasks :
       /\ tasks[t].job = MalformedJobId /\ tasks[t].pc = "returned"
       /\ tasks[t].res # None /\ tasks[t].res[1].status = "failed"
  /\ \E t \in DOMAIN tasks :
       /\ tasks[t].job = "j2" /\ tasks[t].pc = "returned"
       /\ tasks[t].res = Some(FailedResult("Job j2 not found"))

CreatesAndKeeps(tree, r, path) ==
  /\ r.ok
  /\ r.path = path
  /\ Prefixes(path) \subseteq r.tree.dirs
  /\ tree.dirs \subseteq r.tree.dirs
  /\ r.tree.files = tree.files

\* C38: on every tree the program produces, job_path(id) returns
\* jobs/{id} and audio_path(id) returns audio/{id} below the root, with the
\* directory and its parents in place, existing directories and files
\* untouched; a repeated call returns the same path and changes nothing
\* more; get_audio_file_path does the same for the file's directory; and no
\* storage operation removes a directory or a file.
C38_PathOperations ==
  /\ [](\A j \in StorageJobIds :
          LET r == job_path(fs, j)
              again == job_path(r.tree, j)
          IN  /\ CreatesAndKeeps(fs, r, <<"jobs", j>>)
              /\ again.path = r.path /\ again.tree = r.tree)
  /\ [](\A a \in StorageAudioIds :
          LET r == audio_path(fs, a)
              again == audio_path(r.tree, a)
          IN  /\ CreatesAndKeeps(fs, r, <<"audio", a>>)
              /\ again.path = r.path /\ again.tree = r.tree
              /\ \A f \in StoredNames :
                   LET g == get_audio_file_path(fs, a, f)
                   IN  /\ g.ok /\ g.path = <<"audio", a, f>>
                       /\ g.tree = r.tree
                       /\ get_audio_file_path(g.tree, a, f) = g)
  /\ [](fs.ret # None
          => (fs.ret[1] \in fs.dirs \/ SubSeq(fs.ret[1], 1, Len(fs.ret[1]) - 1) \in fs.dirs))
  /\ [][/\ fs.dirs \subseteq fs'.dirs
        /\ DOMAIN fs.files \subseteq DOMAIN fs'.files]_vars

\* job_path has returned the directory of a job in which a stem file had
\* been saved before, next to an audio directory holding a file.
C38_Witness ==
  /\ fs.ret = Some(<<"jobs", "j1">>)
  /\ <<"jobs", "j1", "stems", "song.vocals.mp3">> \in DOMAIN fs.files
  /\ <<"audio", "a1", "song.mp3">> \in DOMAIN fs.files
  /\ <<"jobs", "j2">> \in fs.dirs

\* C39: an upload whose saved file turned out larger than the maximum is
\* answered 413, and afterwards neither the file nor an Audio row exists
\* under its id.
C39_OversizeRejected ==
  (http.code # 0 /\ "upload" \in DOMAIN http /\ http.upload = "oversize")
    => /\ http.code = 413
       /\ http.audio \notin disk
       /\ http.audio \notin DOMAIN audios

\* The client's last poll of job j was answered from the row as it is now.
Observed(j) ==
  /\ "method" \in DOMAIN http
  /\ http.code = 200
  /\ http.job = Some(j)
  /\ http.body = Some(jobs[j])

\* C40: a client that polls a job after its processing has finished
\* observes the status value 'completed' when the processing succeeded, and
\* 'failed' together with the error the processing ended with (when that
\* error has a text) when it failed.
C40_ClientObservesCompleted ==
  \A t \in DOMAIN tasks :
    LET j == tasks[t].job
    IN  (tasks[t].pc = "returned" /\ tasks[t].res # None /\ Observed(j))
          => /\ tasks[t].res[1].status = "succeeded" => http.body[1].status = "completed"
             /\ tasks[t].res[1].status = "failed"
                  => /\ http.body[1].status = "failed"
                     /\ Truthy(tasks[t].res[1].error)
                          => http.body[1].error_message = tasks[t].res[1].error

====
